---- MODULE Spec2Model ----
(***************************************************************************)
(* sam206 - vector - accessing elements using Iterators (src/main.cpp).    *)
(*                                                                         *)
(* The program is one sequential procedure, main, and two helpers,         *)
(* display and populate_vector.  The model is a labelled transition        *)
(* system: pc = "L<n>" means that the statement at line <n> of main.cpp is  *)
(* the next one to execute.  A vector<int> is a sequence; an iterator into *)
(* it is the 0-based offset from begin(), so end() is Len(v).              *)
(* Standard output is a sequence of finished lines (out) and the tokens of *)
(* the line being written (line); every << insertion appends one token.    *)
(***************************************************************************)
EXTENDS Integers, Sequences, FiniteSets, TLC

VARIABLES
    pc,             \* label of the next statement
    ret,            \* label display / populate_vector return to
    ages_vector,    \* main.cpp:39
    iter,           \* main.cpp:55   offset of the position marker
    iter81,         \* main.cpp:81   the for loop's own marker
    iter148,        \* main.cpp:148  the remove-even loop's own marker
    i,              \* main.cpp:228  display's index
    num_items,      \* main.cpp:103
    count_under18,  \* main.cpp:112
    result_iter1,   \* main.cpp:187
    result_iter2,   \* main.cpp:201
    lottoDraw,      \* main.cpp:210
    myNumbers,      \* main.cpp:211
    line,           \* tokens written to cout since the last newline
    out,            \* the finished lines of cout
    ub,             \* TRUE once an out-of-range dereference or erase happened
    v0              \* history: ages_vector when the loop of line 148 was entered

vars == <<pc, ret, ages_vector, iter, iter81, iter148, i, num_items,
          count_under18, result_iter1, result_iter2, lottoDraw, myNumbers,
          line, out, ub, v0>>

\* everything but pc, ages_vector, line, out
locals == <<iter, iter81, iter148, i, num_items, count_under18,
            result_iter1, result_iter2, lottoDraw, myNumbers>>

-----------------------------------------------------------------------------
(* Bounds of the input space the helpers are exercised on.                 *)

MaxLen == 3

Values == {-3, 16, 17, 18, 21}

LottoValues == {2, 10, 13}

\* all sequences over S of length at most n
BSeq(S, n) == UNION {[1..k -> S] : k \in 0..n}

-----------------------------------------------------------------------------
(* vector<int> and iterator primitives                                     *)

size(v) == Len(v)

empty(v) == Len(v) = 0

begin(v) == 0

end(v) == Len(v)

\* an iterator that may be dereferenced or erased at
InRange(v, k) == 0 <= k /\ k < Len(v)

at(v, k) == v[k + 1]

\* mutant of clear: the previous elements are kept
clear_keep(v) == v

clear(v) == << >>

push_back(v, x) == Append(v, x)

\* mutant of pop_back: two elements go
pop_back_two(v) == SubSeq(v, 1, Len(v) - 2)

pop_back(v) == SubSeq(v, 1, Len(v) - 1)

\* mutant of erase: the last element is moved into the hole
erase_swap(v, k) ==
    IF k = Len(v) - 1 THEN SubSeq(v, 1, Len(v) - 1)
    ELSE [SubSeq(v, 1, Len(v) - 1) EXCEPT ![k + 1] = v[Len(v)]]

\* erase(pos) for a dereferenceable pos: the elements after pos move down by one
erase(v, k) == SubSeq(v, 1, k) \o SubSeq(v, k + 2, Len(v))

\* *it : the element when it is dereferenceable; otherwise undefined behaviour:
\* the read yields some value, or the run stops
Deref(v, k) ==
    IF InRange(v, k)
    THEN {[ok |-> TRUE, val |-> at(v, k)]}
    ELSE {[ok |-> FALSE, val |-> 0]} \cup {[ok |-> TRUE, val |-> x] : x \in Values \cup {0}}

\* v.erase(it) : undefined behaviour when it is not dereferenceable: the run
\* stops, or the vector is left as it was, or it loses its last element
Erase(v, k) ==
    IF InRange(v, k)
    THEN {[ok |-> TRUE, vec |-> erase(v, k)]}
    ELSE {[ok |-> FALSE, vec |-> v], [ok |-> TRUE, vec |-> v]}
         \cup (IF Len(v) > 0 THEN {[ok |-> TRUE, vec |-> pop_back(v)]} ELSE {})

\* C++ % truncates toward zero
CppMod(a, b) == IF a >= 0 THEN a % b ELSE -((-a) % b)

-----------------------------------------------------------------------------
(* operator<<(int): decimal text                                           *)

Digit(d) == <<"0", "1", "2", "3", "4", "5", "6", "7", "8", "9">>[d + 1]

RECURSIVE ToDecNat(_)
ToDecNat(n) == IF n < 10 THEN Digit(n) ELSE ToDecNat(n \div 10) \o Digit(n % 10)

ToDec(n) == IF n < 0 THEN "-" \o ToDecNat(-n) ELSE ToDecNat(n)

\* the characters of a line: its tokens one after the other
RECURSIVE Text(_)
Text(toks) == IF toks = << >> THEN "" ELSE Head(toks) \o Text(Tail(toks))

-----------------------------------------------------------------------------
(* <algorithm> over the range [first, last) of v                           *)

\* A predicate is the set of the values it accepts.

find_if(v, first, last, p) ==
    LET f[k \in first..last] ==
            IF k = last THEN last
            ELSE IF at(v, k) \in p THEN k ELSE f[k + 1]
    IN  f[first]

find_if_not(v, first, last, p) ==
    LET f[k \in first..last] ==
            IF k = last THEN last
            ELSE IF at(v, k) \notin p THEN k ELSE f[k + 1]
    IN  f[first]

count_if(v, first, last, p) ==
    LET c[k \in first..last] ==
            IF k = last THEN 0
            ELSE (IF at(v, k) \in p THEN 1 ELSE 0) + c[k + 1]
    IN  c[first]

\* mutant of find: the search starts one element late
find_late(v, first, last, value) ==
    find_if(v, IF first = last THEN first ELSE first + 1, last, {value})

find(v, first, last, value) == find_if(v, first, last, {value})

count(v, first, last, value) == count_if(v, first, last, {value})

all_of(v, first, last, p) == find_if_not(v, first, last, p) = last

none_of(v, first, last, p) == find_if(v, first, last, p) = last

\* mutant of operator==: the sizes are not compared
VecEq_prefix(a, b) ==
    LET eq[k \in 0..size(a)] ==
            IF k = size(a) \/ k >= size(b) THEN TRUE
            ELSE IF at(a, k) = at(b, k) THEN eq[k + 1] ELSE FALSE
    IN  eq[0]

\* operator== of two vectors: same size, and std::equal over the elements
VecEq(a, b) ==
    /\ size(a) = size(b)
    /\ LET eq[k \in 0..size(a)] ==
               IF k = size(a) THEN TRUE
               ELSE IF at(a, k) = at(b, k) THEN eq[k + 1] ELSE FALSE
       IN  eq[0]

\* the lambdas of main
\* mutant of the lambda of line 112
under18_le == {x \in Int : x <= 18}

under18 == {x \in Int : x < 18}

\* mutant of the lambda of line 170
gt16_ge == {x \in Int : x >= 16}

gt16 == {x \in Int : x > 16}

lt17 == {x \in Int : x < 17}

is_even == {x \in Int : CppMod(x, 2) = 0}

age == 21

-----------------------------------------------------------------------------
(* statement shapes                                                        *)

\* cout << toks;            (no newline)
Put(from, toks, to) ==
    /\ pc = from
    /\ line' = line \o toks
    /\ pc' = to
    /\ UNCHANGED <<out, ret, ages_vector, locals, ub, v0>>

\* cout << toks << endl;    (or a literal ending in \n)
PutLn(from, toks, to) ==
    /\ pc = from
    /\ out' = Append(out, line \o toks)
    /\ line' = << >>
    /\ pc' = to
    /\ UNCHANGED <<ret, ages_vector, locals, ub, v0>>

\* a call of display or populate_vector: entry label callee, return label to
Call(from, callee, to) ==
    /\ pc = from
    /\ pc' = callee
    /\ ret' = to
    /\ UNCHANGED <<ages_vector, locals, line, out, ub, v0>>

-----------------------------------------------------------------------------
(* void populate_vector(vector<int>& vect)          main.cpp:238-245        *)

L239 ==
    /\ pc = "L239"
    /\ ages_vector' = clear(ages_vector)
    /\ pc' = "L240"
    /\ UNCHANGED <<ret, locals, line, out, ub, v0>>

PushBack(from, x, to) ==
    /\ pc = from
    /\ ages_vector' = push_back(ages_vector, x)
    /\ pc' = to
    /\ UNCHANGED <<ret, locals, line, out, ub, v0>>

L240 == PushBack("L240", 18, "L241")

L241 == PushBack("L241", 17, "L242")

L242 == PushBack("L242", 21, "L243")

L243 == PushBack("L243", 18, "L244")

L244 == PushBack("L244", 21, "L245")

\* the closing brace: back to the caller
L245 ==
    /\ pc = "L245"
    /\ pc' = ret
    /\ UNCHANGED <<ret, ages_vector, locals, line, out, ub, v0>>

populate_vector == L239 \/ L240 \/ L241 \/ L242 \/ L243 \/ L244 \/ L245

-----------------------------------------------------------------------------
(* void display(const vector<int>& vector_ref)      main.cpp:226-236        *)

\* for (int i=0; ...
L228 ==
    /\ pc = "L228"
    /\ i' = 0
    /\ pc' = "L228c"
    /\ UNCHANGED <<ret, ages_vector, iter, iter81, iter148, num_items,
                   count_under18, result_iter1, result_iter2, lottoDraw,
                   myNumbers, line, out, ub, v0>>

\* ... i<vector_ref.size(); ...
L228c ==
    /\ pc = "L228c"
    /\ pc' = IF i < size(ages_vector) THEN "L230" ELSE "L235"
    /\ UNCHANGED <<ret, ages_vector, locals, line, out, ub, v0>>

\* mutant of L230: the separator is written before every element
L230_always ==
    /\ pc = "L230"
    /\ line' = line \o <<",">>
    /\ pc' = "L233"
    /\ UNCHANGED <<ret, ages_vector, locals, out, ub, v0>>

\* if (i != 0) { cout << ","; }
L230 ==
    /\ pc = "L230"
    /\ line' = IF i # 0 THEN line \o <<",">> ELSE line
    /\ pc' = "L233"
    /\ UNCHANGED <<ret, ages_vector, locals, out, ub, v0>>

\* cout << vector_ref.at(i);  then i++.  at() throws out_of_range past the
\* end, which nothing catches
L233 ==
    /\ pc = "L233"
    /\ IF InRange(ages_vector, i)
       THEN /\ line' = line \o <<ToDec(at(ages_vector, i))>>
            /\ i' = i + 1
            /\ pc' = "L228c"
       ELSE /\ pc' = "abort"
            /\ UNCHANGED <<line, i>>
    /\ UNCHANGED <<ret, ages_vector, iter, iter81, iter148, num_items,
                   count_under18, result_iter1, result_iter2, lottoDraw,
                   myNumbers, out, ub, v0>>

\* cout << endl;  and back to the caller
L235 ==
    /\ pc = "L235"
    /\ out' = Append(out, line)
    /\ line' = << >>
    /\ pc' = ret
    /\ UNCHANGED <<ret, ages_vector, locals, ub, v0>>

display == L228 \/ L228c \/ L230 \/ L233 \/ L235

-----------------------------------------------------------------------------
(* int main()                                       main.cpp:32-219         *)

L34 == PutLn("L34", <<"sam206 - vector - using Iterators">>, "L39")

\* vector<int> ages_vector;   initially empty
L39 ==
    /\ pc = "L39"
    /\ ages_vector' = << >>
    /\ pc' = "L41"
    /\ UNCHANGED <<ret, locals, line, out, ub, v0>>

L41 == Call("L41", "L239", "L43")

L43 == Call("L43", "L228", "L55")

\* mutant of L55: end() for begin()
L55_end ==
    /\ pc = "L55"
    /\ iter' = end(ages_vector)
    /\ pc' = "L62"
    /\ UNCHANGED <<ret, ages_vector, iter81, iter148, i, num_items,
                   count_under18, result_iter1, result_iter2, lottoDraw,
                   myNumbers, line, out, ub, v0>>

\* auto iter = ages_vector.begin();
L55 ==
    /\ pc = "L55"
    /\ iter' = begin(ages_vector)
    /\ pc' = "L62"
    /\ UNCHANGED <<ret, ages_vector, iter81, iter148, i, num_items,
                   count_under18, result_iter1, result_iter2, lottoDraw,
                   myNumbers, line, out, ub, v0>>

\* cout << text << *it << endl;
PutDerefLn(from, text, it, to) ==
    /\ pc = from
    /\ \E r \in Deref(ages_vector, it) :
          /\ ub' = (ub \/ ~InRange(ages_vector, it))
          /\ IF r.ok
             THEN /\ out' = Append(out, line \o <<text, ToDec(r.val)>>)
                  /\ line' = << >>
                  /\ pc' = to
             ELSE /\ pc' = "abort"
                  /\ UNCHANGED <<line, out>>
    /\ UNCHANGED <<ret, ages_vector, locals, v0>>

L62 == PutDerefLn("L62",
         "Dereferencing the Iterator to get first element in vector, value = ",
         iter, "L68")

\* iter++;
L68 ==
    /\ pc = "L68"
    /\ iter' = iter + 1
    /\ pc' = "L70"
    /\ UNCHANGED <<ret, ages_vector, iter81, iter148, i, num_items,
                   count_under18, result_iter1, result_iter2, lottoDraw,
                   myNumbers, line, out, ub, v0>>

L70 == PutDerefLn("L70",
         "Increment by one (iter++;) Dereferencing the Iterator to get value = ",
         iter, "L80")

L80 == Put("L80", <<"Output vector elements using for loop and iterator : ">>, "L81")

\* for (auto iter = ages_vector.begin(); ...
L81 ==
    /\ pc = "L81"
    /\ iter81' = begin(ages_vector)
    /\ pc' = "L81c"
    /\ UNCHANGED <<ret, ages_vector, iter, iter148, i, num_items,
                   count_under18, result_iter1, result_iter2, lottoDraw,
                   myNumbers, line, out, ub, v0>>

\* ... iter != ages_vector.end(); ...
L81c ==
    /\ pc = "L81c"
    /\ pc' = IF iter81 # end(ages_vector) THEN "L82" ELSE "L84"
    /\ UNCHANGED <<ret, ages_vector, locals, line, out, ub, v0>>

\* cout << *iter << ", ";  then ++iter
L82 ==
    /\ pc = "L82"
    /\ \E r \in Deref(ages_vector, iter81) :
          /\ ub' = (ub \/ ~InRange(ages_vector, iter81))
          /\ IF r.ok
             THEN /\ line' = line \o <<ToDec(r.val), ", ">>
                  /\ iter81' = iter81 + 1
                  /\ pc' = "L81c"
             ELSE /\ pc' = "abort"
                  /\ UNCHANGED <<line, iter81>>
    /\ UNCHANGED <<ret, ages_vector, iter, iter148, i, num_items,
                   count_under18, result_iter1, result_iter2, lottoDraw,
                   myNumbers, out, v0>>

L84 == PutLn("L84", << >>, "L103")

\* int num_items = count(ages_vector.cbegin(), ages_vector.cend(), age);
L103 ==
    /\ pc = "L103"
    /\ num_items' = count(ages_vector, begin(ages_vector), end(ages_vector), age)
    /\ pc' = "L104"
    /\ UNCHANGED <<ret, ages_vector, iter, iter81, iter148, i,
                   count_under18, result_iter1, result_iter2, lottoDraw,
                   myNumbers, line, out, ub, v0>>

L104 == PutLn("L104", <<"Count of students aged ", ToDec(age), " = ",
                        ToDec(num_items)>>, "L112")

\* int count_under18 = count_if(begin, end, [] (int i) { return i < 18; });
L112 ==
    /\ pc = "L112"
    /\ count_under18' = count_if(ages_vector, begin(ages_vector),
                                 end(ages_vector), under18)
    /\ pc' = "L113"
    /\ UNCHANGED <<ret, ages_vector, iter, iter81, iter148, i, num_items,
                   result_iter1, result_iter2, lottoDraw, myNumbers,
                   line, out, ub, v0>>

L113 == PutLn("L113", <<"Count of students aged under 18 = ",
                        ToDec(count_under18)>>, "L116")

\* if( !ages_vector.empty() )
L116 ==
    /\ pc = "L116"
    /\ pc' = IF ~empty(ages_vector) THEN "L118" ELSE "L127"
    /\ UNCHANGED <<ret, ages_vector, locals, line, out, ub, v0>>

\* ages_vector.pop_back();
L118 ==
    /\ pc = "L118"
    /\ ages_vector' = pop_back(ages_vector)
    /\ pc' = "L127"
    /\ UNCHANGED <<ret, locals, line, out, ub, v0>>

L127 == PutLn("L127", <<"Vector content before erasing the third element">>, "L128")

L128 == Call("L128", "L228", "L129")

\* ages_vector.erase( ages_vector.begin() + 2 );
L129 ==
    /\ pc = "L129"
    /\ \E r \in Erase(ages_vector, begin(ages_vector) + 2) :
          /\ ub' = (ub \/ ~InRange(ages_vector, begin(ages_vector) + 2))
          /\ ages_vector' = r.vec
          /\ pc' = IF r.ok THEN "L130" ELSE "abort"
    /\ UNCHANGED <<ret, locals, line, out, v0>>

L130 == PutLn("L130", <<"Vector content AFTER erasing the third element">>, "L131")

L131 == Call("L131", "L228", "L134")

L134 == Put("L134", <<"Re-populating vector:">>, "L135")

L135 == Call("L135", "L239", "L136")

L136 == Call("L136", "L228", "L147")

L147 == PutLn("L147", <<"Iterating over vector to remove even elements">>, "L148")

\* for (std::vector<int>::iterator iter = ages_vector.begin(); ...
L148 ==
    /\ pc = "L148"
    /\ iter148' = begin(ages_vector)
    /\ v0' = ages_vector
    /\ pc' = "L148c"
    /\ UNCHANGED <<ret, ages_vector, iter, iter81, i, num_items,
                   count_under18, result_iter1, result_iter2, lottoDraw,
                   myNumbers, line, out, ub>>

\* ... iter != ages_vector.end();)
L148c ==
    /\ pc = "L148c"
    /\ pc' = IF iter148 # end(ages_vector) THEN "L150" ELSE "L155"
    /\ UNCHANGED <<ret, ages_vector, locals, line, out, ub, v0>>

\* if (*iter % 2 == 0)
L150 ==
    /\ pc = "L150"
    /\ \E r \in Deref(ages_vector, iter148) :
          /\ ub' = (ub \/ ~InRange(ages_vector, iter148))
          /\ pc' = IF ~r.ok THEN "abort"
                   ELSE IF CppMod(r.val, 2) = 0 THEN "L151" ELSE "L153"
    /\ UNCHANGED <<ret, ages_vector, locals, line, out, v0>>

\* mutant of L151: the marker is advanced after the erase as well
L151_skip ==
    /\ pc = "L151"
    /\ \E r \in Erase(ages_vector, iter148) :
          /\ ub' = (ub \/ ~InRange(ages_vector, iter148))
          /\ ages_vector' = r.vec
          /\ iter148' = iter148 + 1
          /\ pc' = IF r.ok THEN "L148c" ELSE "abort"
    /\ UNCHANGED <<ret, iter, iter81, i, num_items, count_under18,
                   result_iter1, result_iter2, lottoDraw, myNumbers,
                   line, out, v0>>

\* iter = ages_vector.erase(iter);   the marker returned refers to the element
\* that followed the erased one: the same offset
L151 ==
    /\ pc = "L151"
    /\ \E r \in Erase(ages_vector, iter148) :
          /\ ub' = (ub \/ ~InRange(ages_vector, iter148))
          /\ ages_vector' = r.vec
          /\ pc' = IF r.ok THEN "L148c" ELSE "abort"
    /\ UNCHANGED <<ret, locals, line, out, v0>>

\* ++iter;
L153 ==
    /\ pc = "L153"
    /\ iter148' = iter148 + 1
    /\ pc' = "L148c"
    /\ UNCHANGED <<ret, ages_vector, iter, iter81, i, num_items,
                   count_under18, result_iter1, result_iter2, lottoDraw,
                   myNumbers, line, out, ub, v0>>

L155 == Put("L155", <<"After removal of even elements vector contains : ">>, "L156")

L156 == Call("L156", "L228", "L158")

L158 == Put("L158", <<"Re-populating vector:">>, "L159")

L159 == Call("L159", "L239", "L160")

L160 == Call("L160", "L228", "L170")

\* if ( all_of(cbegin, cend, [](int i){ return i > 16; }) ) cout << ...; else cout << ...;
L170 == PutLn("L170",
         IF all_of(ages_vector, begin(ages_vector), end(ages_vector), gt16)
         THEN <<"all_of() : All values in ages_vector are greater than 16">>
         ELSE <<"all_of() : One or more values are not greater than 16">>,
         "L176")

\* if ( none_of(cbegin, cend, [](int i){ return i < 17; }) ) cout << ...; else cout << ...;
L176 == PutLn("L176",
         IF none_of(ages_vector, begin(ages_vector), end(ages_vector), lt17)
         THEN <<"none_of() : None of the values in vector are less than 17">>
         ELSE <<"none_of() : One or more values are less than 17">>,
         "L186")

L186 == PutLn("L186", <<"Using find() to find value 17 in the vector.">>, "L187")

\* auto result_iter1 = find( begin(ages_vector), end(ages_vector), 17 );
L187 ==
    /\ pc = "L187"
    /\ result_iter1' = find(ages_vector, begin(ages_vector), end(ages_vector), 17)
    /\ pc' = "L191"
    /\ UNCHANGED <<ret, ages_vector, iter, iter81, iter148, i, num_items,
                   count_under18, result_iter2, lottoDraw, myNumbers,
                   line, out, ub, v0>>

\* if( result_iter1 != end(ages_vector)) cout << ...; else cout << ...;
L191 == PutLn("L191",
         IF result_iter1 # end(ages_vector)
         THEN <<"Found at least one value 17">>
         ELSE <<"NO value 17 in vector ">>,
         "L201")

\* auto result_iter2 = find_if( begin(ages_vector), end(ages_vector), is_even );
L201 ==
    /\ pc = "L201"
    /\ result_iter2' = find_if(ages_vector, begin(ages_vector), end(ages_vector), is_even)
    /\ pc' = "L203"
    /\ UNCHANGED <<ret, ages_vector, iter, iter81, iter148, i, num_items,
                   count_under18, result_iter1, lottoDraw, myNumbers,
                   line, out, ub, v0>>

\* (result_iter2 != end(ages_vector))? cout << ... : cout << ... << endl;
L203 == PutLn("L203",
         IF result_iter2 # end(ages_vector)
         THEN <<" found one value that satisfied the is_even lambda expression ">>
         ELSE <<"NO even values found">>,
         "L210")

\* vector<int> lottoDraw { 02,10,13,22,35,47 };
L210 ==
    /\ pc = "L210"
    /\ lottoDraw' = <<2, 10, 13, 22, 35, 47>>
    /\ pc' = "L211"
    /\ UNCHANGED <<ret, ages_vector, iter, iter81, iter148, i, num_items,
                   count_under18, result_iter1, result_iter2, myNumbers,
                   line, out, ub, v0>>

\* vector<int> myNumbers { 02,10,13,22,35,47 };
L211 ==
    /\ pc = "L211"
    /\ myNumbers' = <<2, 10, 13, 22, 35, 47>>
    /\ pc' = "L213"
    /\ UNCHANGED <<ret, ages_vector, iter, iter81, iter148, i, num_items,
                   count_under18, result_iter1, result_iter2, lottoDraw,
                   line, out, ub, v0>>

\* if( lottoDraw == myNumbers) cout << ...; else cout << ...;
L213 == PutLn("L213",
         IF VecEq(lottoDraw, myNumbers)
         THEN <<"Horray, I have won the lotto">>
         ELSE <<"No luck today">>,
         "L218")

\* the last statement; main then returns 0 (label L219)
L218 == PutLn("L218", <<"Program finished - goodbye.">>, "L219")

RemoveEvenLoop == L148 \/ L148c \/ L150 \/ L151 \/ L153

main ==
    \/ L34 \/ L39 \/ L41 \/ L43 \/ L55 \/ L62 \/ L68 \/ L70
    \/ L80 \/ L81 \/ L81c \/ L82 \/ L84
    \/ L103 \/ L104 \/ L112 \/ L113 \/ L116 \/ L118
    \/ L127 \/ L128 \/ L129 \/ L130 \/ L131
    \/ L134 \/ L135 \/ L136 \/ L147
    \/ RemoveEvenLoop
    \/ L155 \/ L156 \/ L158 \/ L159 \/ L160
    \/ L170 \/ L176 \/ L186 \/ L187 \/ L191 \/ L201 \/ L203
    \/ L210 \/ L211 \/ L213 \/ L218

-----------------------------------------------------------------------------
(* specifications                                                          *)

\* the values the locals hold before main assigns them: none is read before
Blank ==
    /\ ret = "none"
    /\ iter = 0 /\ iter81 = 0 /\ iter148 = 0 /\ i = 0
    /\ num_items = 0 /\ count_under18 = 0
    /\ result_iter1 = 0 /\ result_iter2 = 0
    /\ line = << >> /\ out = << >>
    /\ ub = FALSE
    /\ v0 = << >>

\* the program is started: nothing constructed, nothing written
Init ==
    /\ pc = "L34"
    /\ ages_vector = << >>
    /\ lottoDraw = << >> /\ myNumbers = << >>
    /\ Blank

Next == main \/ populate_vector \/ display

Spec == Init /\ [][Next]_vars

\* main is a sequential program: a statement that can execute does
FairSpec == Spec /\ WF_vars(Next)

\* what populate_vector leaves, and the literals of lines 210-211
LitAges == <<18, 17, 21, 18, 21>>

LitLotto == <<2, 10, 13, 22, 35, 47>>

Inputs == BSeq(Values, MaxLen) \cup {LitAges}

LottoInputs == BSeq(LottoValues, MaxLen) \cup {LitLotto}

\* the statements at which a fragment of main is entered on an arbitrary collection
Entries == {"L41", "L43", "L103", "L148", "L170", "L187"}

\* main's fragments on every collection of the input space, the comparison of
\* line 213 on every pair of sequences, and the program's own run
InitFn ==
    \/ Init
    \/ /\ pc \in Entries
       /\ ages_vector \in Inputs
       /\ lottoDraw = << >> /\ myNumbers = << >>
       /\ Blank
    \/ /\ pc = "L213"
       /\ ages_vector = LitAges
       /\ lottoDraw \in LottoInputs /\ myNumbers \in LottoInputs
       /\ Blank

SpecFn == InitFn /\ [][Next]_vars

\* the loop of lines 148-154 alone, on every collection of the input space
InitLoop ==
    /\ pc = "L148"
    /\ ages_vector \in Inputs
    /\ lottoDraw = << >> /\ myNumbers = << >>
    /\ Blank

SpecLoop == InitLoop /\ [][RemoveEvenLoop]_vars /\ WF_vars(RemoveEvenLoop)

-----------------------------------------------------------------------------
(* vocabulary of the properties                                            *)

Odd(x) == x % 2 = 1

Even(x) == x % 2 = 0

\* the indices (1-based) of v whose element satisfies p
Matching(v, p(_)) == {k \in 1..Len(v) : p(v[k])}

\* w is v without its k-th element (1-based), the others in their order
RemovedAt(v, w, k) ==
    /\ k \in 1..Len(v)
    /\ Len(w) = Len(v) - 1
    /\ \A j \in 1..Len(w) : w[j] = IF j < k THEN v[j] ELSE v[j + 1]

\* r (an offset) is the first position of v whose element satisfies p, or
\* end when there is none
FirstMatch(v, r, p(_)) ==
    \/ r = Len(v) /\ Matching(v, p) = {}
    \/ /\ r \in 0..(Len(v) - 1)
       /\ p(v[r + 1])
       /\ \A j \in 1..r : ~p(v[j])

\* the tokens of n elements with one "," between neighbours
Separated(v) ==
    [k \in 1..(IF Len(v) = 0 THEN 0 ELSE 2 * Len(v) - 1) |->
        IF k % 2 = 1 THEN ToDec(v[(k + 1) \div 2]) ELSE ","]

\* what main has written on the current line before it calls display
DisplayPrefix ==
    IF ret \in {"L147", "L170"} THEN <<"Re-populating vector:">>
    ELSE IF ret = "L158" THEN <<"After removal of even elements vector contains : ">>
    ELSE << >>

DisplayLabels == {"L228", "L228c", "L230", "L233", "L235"}

PopulateLabels == {"L239", "L240", "L241", "L242", "L243", "L244", "L245"}

LoopLabels == {"L148c", "L150", "L151", "L153"}

LastLine == out[Len(out)]

Swap(s, j, k) == [s EXCEPT ![j] = s[k], ![k] = s[j]]

-----------------------------------------------------------------------------
(* C1 *)

\* C1: whatever the collection held before, when populate_vector returns the
\* collection is exactly [18,17,21,18,21], of length 5; this covers a call on
\* the result of a previous call, which therefore leaves the same state.
C1_Populate ==
    pc \in {"L245", "L136", "L160"} =>
        /\ ages_vector = <<18, 17, 21, 18, 21>>
        /\ Len(ages_vector) = 5

\* populate_vector has returned from the call of line 135, made on [18,17,18]
C1_Witness ==
    /\ pc = "L245" /\ ret = "L136"
    /\ ages_vector = <<18, 17, 21, 18, 21>>

-----------------------------------------------------------------------------
(* C2 *)

\* C2 as stated: the remove-even loop terminates on every input, leaves the
\* odd elements of the input in their order, and leaves [17,21] on the input
\* [18,17,21,18,21].
C2_Original ==
    /\ <>(pc = "L155")
    /\ [](pc = "L155" =>
            /\ ages_vector = SelectSeq(v0, Odd)
            /\ v0 = <<18, 17, 21, 18, 21>> => ages_vector = <<17, 21>>)

\* C2 amended: the remove-even loop terminates on every input, and on exit the
\* collection is the subsequence of the odd elements of the input in their
\* order; on the input [18,17,21,18,21] that is [17,21,21].
C2_RemoveEven ==
    /\ <>(pc = "L155")
    /\ [](pc = "L155" =>
            /\ ages_vector = SelectSeq(v0, Odd)
            /\ v0 = <<18, 17, 21, 18, 21>> => ages_vector = <<17, 21, 21>>)

\* the loop has run to its end on [18,17,21,18,21]
C2_Witness ==
    /\ pc = "L155"
    /\ v0 = <<18, 17, 21, 18, 21>>
    /\ ages_vector = <<17, 21, 21>>

-----------------------------------------------------------------------------
(* C3 *)

\* C3: in the program's run every dereference of a position marker and every
\* erase is at an offset within the collection: offset 0 at line 62, offset 1
\* at line 70, offset 2 of 4 elements at line 129, and each offset used in the
\* loops of lines 81-83 and 148-154 and by display; no out-of-range access
\* happens and the run is never cut short.
C3_InBounds ==
    /\ ub = FALSE
    /\ pc # "abort"
    /\ pc = "L62" => iter = 0 /\ InRange(ages_vector, iter)
    /\ pc = "L70" => iter = 1 /\ InRange(ages_vector, iter)
    /\ pc = "L82" => InRange(ages_vector, iter81)
    /\ pc = "L129" => Len(ages_vector) = 4 /\ InRange(ages_vector, 2)
    /\ pc \in {"L150", "L151"} => InRange(ages_vector, iter148)
    /\ pc = "L233" => InRange(ages_vector, i)

\* the erase of line 129 has been done, in range
C3_Witness ==
    /\ pc = "L130"
    /\ ages_vector = <<18, 17, 18>>
    /\ ub = FALSE

-----------------------------------------------------------------------------
(* C4 *)

\* C4: for every collection, what display has written when it reaches its
\* newline is the elements in index order with exactly one "," between
\* neighbours, none before the first or after the last (nothing at all for an
\* empty collection); the newline then ends that line; no step of display
\* changes the collection; for [18,17,21,18,21] the text is 18,17,21,18,21.
C4_Display ==
    /\ [](pc = "L235" =>
            /\ line = DisplayPrefix \o Separated(ages_vector)
            /\ Len(line) - Len(DisplayPrefix) =
                 (IF Len(ages_vector) = 0 THEN 0 ELSE 2 * Len(ages_vector) - 1)
            /\ Cardinality({k \in (Len(DisplayPrefix) + 1)..Len(line) : line[k] = ","}) =
                 (IF Len(ages_vector) = 0 THEN 0 ELSE Len(ages_vector) - 1)
            /\ ages_vector = <<18, 17, 21, 18, 21>> =>
                 Text(SubSeq(line, Len(DisplayPrefix) + 1, Len(line))) = "18,17,21,18,21"
            /\ ages_vector = <<-3, 16>> =>
                 Text(SubSeq(line, Len(DisplayPrefix) + 1, Len(line))) = "-3,16")
    /\ [][pc = "L235" => (out' = Append(out, line) /\ line' = << >>)]_vars
    /\ [][(pc \in DisplayLabels) => (ages_vector' = ages_vector)]_vars

\* display has written [18,17,21,18,21] and is about to end the line
C4_Witness ==
    /\ pc = "L235" /\ ret = "L55"
    /\ ages_vector = <<18, 17, 21, 18, 21>>
    /\ Text(line) = "18,17,21,18,21"

-----------------------------------------------------------------------------
(* C5 *)

\* C5: each removal main makes takes exactly one element away and keeps the
\* others in their order: pop_back (reached only on a non-empty collection)
\* removes the last, erase at offset 2 removes the third, each erase of the
\* remove-even loop removes the element at the marker; [18,17,21,18,21]
\* becomes [18,17,21,18] at line 118 and that becomes [18,17,18] at line 129;
\* on an empty collection line 116 skips pop_back and changes nothing.
C5_Removals ==
    [][ /\ pc = "L118" =>
              /\ Len(ages_vector) > 0
              /\ RemovedAt(ages_vector, ages_vector', Len(ages_vector))
        /\ (pc = "L129" /\ InRange(ages_vector, 2)) =>
              RemovedAt(ages_vector, ages_vector', 3)
        /\ (pc = "L151" /\ InRange(ages_vector, iter148)) =>
              RemovedAt(ages_vector, ages_vector', iter148 + 1)
        /\ pc = "L116" =>
              /\ ages_vector' = ages_vector
              /\ pc' = IF ages_vector = << >> THEN "L127" ELSE "L118"
        /\ (pc = "L118" /\ ages_vector = <<18, 17, 21, 18, 21>>) =>
              ages_vector' = <<18, 17, 21, 18>>
        /\ (pc = "L129" /\ ages_vector = <<18, 17, 21, 18>>) =>
              ages_vector' = <<18, 17, 18>>
      ]_vars

\* the third of [18,17,21,18] has been erased
C5_Witness ==
    /\ pc = "L130"
    /\ ages_vector = <<18, 17, 18>>
    /\ num_items = 2

-----------------------------------------------------------------------------
(* C6 *)

-----------------------------------------------------------------------------
(* C7 *)

AllAffirmative == <<"all_of() : All values in ages_vector are greater than 16">>

AllNegative == <<"all_of() : One or more values are not greater than 16">>

NoneAffirmative == <<"none_of() : None of the values in vector are less than 17">>

NoneNegative == <<"none_of() : One or more values are less than 17">>

\* C7: the all-greater-than-16 test succeeds exactly on the collections with
\* no value <= 16, so it fails on every collection that holds one; the
\* none-less-than-17 test succeeds exactly on the collections with no value
\* < 17; the two agree; on [18,17,21,18,21] main prints the affirmative
\* message of both.
C7_AllNone ==
    /\ pc = "L176" =>
          LastLine = IF \E k \in 1..Len(ages_vector) : ages_vector[k] <= 16
                     THEN AllNegative ELSE AllAffirmative
    /\ pc = "L186" =>
          /\ LastLine = IF \E k \in 1..Len(ages_vector) : ages_vector[k] < 17
                        THEN NoneNegative ELSE NoneAffirmative
          /\ out[Len(out) - 1] \in {AllAffirmative, AllNegative}
          /\ (out[Len(out) - 1] = AllAffirmative) <=> (LastLine = NoneAffirmative)
          /\ ages_vector = <<18, 17, 21, 18, 21>> =>
                out[Len(out) - 1] = AllAffirmative /\ LastLine = NoneAffirmative

\* both tests of [18,17,21,18,21] are done and answered in the affirmative
C7_Witness ==
    /\ pc = "L186"
    /\ ages_vector = <<18, 17, 21, 18, 21>>
    /\ out[Len(out) - 1] = AllAffirmative
    /\ LastLine = NoneAffirmative

-----------------------------------------------------------------------------
(* C8 *)

Found17 == <<"Found at least one value 17">>

FoundEven == <<" found one value that satisfied the is_even lambda expression ">>

\* C8: find and find_if over the whole collection return the position of the
\* first matching element, and end exactly when nothing matches; in
\* [18,17,21,18,21] the value 17 is found at offset 1, the value 99 is not
\* found, the first even element is at offset 0, and main prints the found
\* message of both searches.
C8_Find ==
    /\ pc = "L191" =>
          /\ FirstMatch(ages_vector, result_iter1, LAMBDA x : x = 17)
          /\ ages_vector = <<18, 17, 21, 18, 21>> => result_iter1 = 1
    /\ pc = "L203" =>
          /\ FirstMatch(ages_vector, result_iter2, Even)
          /\ ages_vector = <<18, 17, 21, 18, 21>> => result_iter2 = 0
    /\ pc = "L201" =>
          (LastLine = Found17) <=> (\E k \in 1..Len(ages_vector) : ages_vector[k] = 17)
    /\ pc = "L210" =>
          (LastLine = FoundEven) <=> (\E k \in 1..Len(ages_vector) : Even(ages_vector[k]))
    /\ find(ages_vector, begin(ages_vector), end(ages_vector), 99) = end(ages_vector)
    /\ find(<<18, 17, 21, 18, 21>>, 0, 5, 99) = 5

\* both searches of [18,17,21,18,21] are done, the second just answered
C8_Witness ==
    /\ pc = "L210"
    /\ ages_vector = <<18, 17, 21, 18, 21>>
    /\ result_iter1 = 1 /\ result_iter2 = 0
    /\ LastLine = FoundEven
    /\ out[Len(out) - 1] = Found17

-----------------------------------------------------------------------------
(* C9 *)

Won == <<"Horray, I have won the lotto">>

\* C9: the comparison of line 213 succeeds exactly when the two sequences have
\* the same length and the same element at every index; the two literals
\* [2,10,13,22,35,47] compare equal and main prints the winning message;
\* a sequence compares different from itself with one element changed, and
\* from itself with two unequal elements exchanged.
C9_Equality ==
    /\ pc = "L218" =>
          /\ (LastLine = Won) <=>
                /\ Len(lottoDraw) = Len(myNumbers)
                /\ \A k \in 1..Len(lottoDraw) : lottoDraw[k] = myNumbers[k]
          /\ (lottoDraw = <<2, 10, 13, 22, 35, 47>> /\ myNumbers = <<2, 10, 13, 22, 35, 47>>)
                => LastLine = Won
    /\ \A k \in 1..Len(lottoDraw) :
          /\ \A x \in (LottoValues \cup {22, 35, 47}) \ {lottoDraw[k]} :
                ~VecEq(lottoDraw, [lottoDraw EXCEPT ![k] = x])
          /\ \A j \in 1..Len(lottoDraw) :
                lottoDraw[j] # lottoDraw[k] =>
                    /\ ~VecEq(lottoDraw, Swap(lottoDraw, j, k))
                    /\ ~VecEq(Swap(lottoDraw, j, k), lottoDraw)

\* the two literals have been compared and the winning message printed
C9_Witness ==
    /\ pc = "L218"
    /\ lottoDraw = <<2, 10, 13, 22, 35, 47>>
    /\ myNumbers = <<2, 10, 13, 22, 35, 47>>
    /\ LastLine = Won

-----------------------------------------------------------------------------
(* C10 *)

Goodbye == <<"Program finished - goodbye.">>

\* inside populate_vector or the remove-even loop the collection is between
\* two of the states main's steps leave
InTransit == pc \in PopulateLabels \cup LoopLabels

\* the statement of main that is executing: the call, inside a helper
Site ==
    IF pc \in DisplayLabels THEN
        CASE ret = "L55" -> "L43"   [] ret = "L129" -> "L128"
          [] ret = "L134" -> "L131" [] ret = "L147" -> "L136"
          [] ret = "L158" -> "L156" [] ret = "L170" -> "L160"
          [] OTHER -> "none"
    ELSE IF pc \in PopulateLabels THEN
        CASE ret = "L43" -> "L41" [] ret = "L136" -> "L135"
          [] ret = "L160" -> "L159" [] OTHER -> "none"
    ELSE IF pc \in LoopLabels THEN "L148"
    ELSE pc

\* how many of the collection's successive states the run has reached
Step ==
    CASE Site \in {"L34", "L39", "L41"} -> 1
      [] Site \in {"L43", "L55", "L62", "L68", "L70", "L80", "L81", "L81c", "L82",
                   "L84", "L103", "L104", "L112", "L113", "L116", "L118"} -> 2
      [] Site \in {"L127", "L128", "L129"} -> 3
      [] Site \in {"L130", "L131", "L134", "L135"} -> 4
      [] Site \in {"L136", "L147", "L148"} -> 5
      [] Site \in {"L155", "L156", "L158", "L159"} -> 6
      [] Site \in {"L160", "L170", "L176", "L186", "L187", "L191", "L201", "L203",
                   "L210", "L211", "L213", "L218", "L219"} -> 7
      [] OTHER -> 0

\* the states the collection is said to go through, and those it goes through
StatedVisits ==
    << << >>, <<18, 17, 21, 18, 21>>, <<18, 17, 21, 18>>, <<18, 17, 18>>,
       <<18, 17, 21, 18, 21>>, <<17, 21>>, <<18, 17, 21, 18, 21>> >>

ActualVisits ==
    << << >>, <<18, 17, 21, 18, 21>>, <<18, 17, 21, 18>>, <<18, 17, 18>>,
       <<18, 17, 21, 18, 21>>, <<17, 21, 21>>, <<18, 17, 21, 18, 21>> >>

\* the run ends at the return of main; the goodbye line is written once, last,
\* and nothing follows it; lines 170-218 leave the collection [18,17,21,18,21]
RunEnds ==
    /\ <>(pc = "L219")
    /\ [](Step \in 1..7)
    /\ [](pc = "L219" =>
            /\ Step = 7
            /\ ages_vector = <<18, 17, 21, 18, 21>>
            /\ line = << >>
            /\ LastLine = Goodbye
            /\ Cardinality({k \in 1..Len(out) : out[k] = Goodbye}) = 1)
    /\ [][pc # "L219"]_vars
    /\ [](pc # "L219" => \A k \in 1..Len(out) : out[k] # Goodbye)
    /\ [](pc \in {"L170", "L176", "L186", "L187", "L191", "L201", "L203", "L210",
                  "L211", "L213", "L218"} => ages_vector = <<18, 17, 21, 18, 21>>)

\* C10 as stated: the run of main ends, the collection going through
\* [] -> [18,17,21,18,21] -> [18,17,21,18] -> [18,17,18] -> [18,17,21,18,21]
\* -> [17,21] -> [18,17,21,18,21], each state held from the step that
\* produces it to the step that produces the next, still [18,17,21,18,21]
\* through lines 170-218, the goodbye line written once and last.
C10_Original ==
    /\ RunEnds
    /\ [](~InTransit => ages_vector = StatedVisits[Step])
    /\ [][Step' # Step =>
            /\ Step' = Step + 1
            /\ ~InTransit'
            /\ ages_vector' = StatedVisits[Step']]_vars

\* C10 amended: the run of main ends, the collection going through
\* [] -> [18,17,21,18,21] -> [18,17,21,18] -> [18,17,18] -> [18,17,21,18,21]
\* -> [17,21,21] -> [18,17,21,18,21], each state held from the step that
\* produces it to the step that produces the next, still [18,17,21,18,21]
\* through lines 170-218, the goodbye line written once and last.
C10_Run ==
    /\ RunEnds
    /\ [](~InTransit => ages_vector = ActualVisits[Step])
    /\ [][Step' # Step =>
            /\ Step' = Step + 1
            /\ ~InTransit'
            /\ ages_vector' = ActualVisits[Step']]_vars

\* main has returned
C10_Witness ==
    /\ pc = "L219"
    /\ ages_vector = <<18, 17, 21, 18, 21>>
    /\ LastLine = Goodbye
    /\ \E k \in 1..Len(out) : out[k] = <<"After removal of even elements vector contains : ",
                                         "17", ",", "21", ",", "21">>

====
